---- MODULE Spec2Model ----
(***************************************************************************)
(* Factored transition models (DBN, DBNRef, CompactDDN, FactoredDDN) and   *)
(* the back-projection operators of                                        *)
(* include/AIToolbox/Factored/Utils/BayesianNetwork.hpp.                   *)
(*                                                                         *)
(* Conventions.                                                            *)
(*  - A std::vector indexed by a variable id is a function on 0..n-1.      *)
(*  - A tag (PartialKeys) is a sequence of variable ids, strictly          *)
(*    increasing.  A PartialFactors pair is [first |-> tag, second |->     *)
(*    values], as std::pair names its members.                             *)
(*  - A double is a fixed-point integer: the real r is the integer r*One.  *)
(*    Every probability of the model is a multiple of 1/2 and at most      *)
(*    NumFactors of them are multiplied, so nothing is rounded.            *)
(***************************************************************************)
EXTENDS Integers, Sequences, FiniteSets, TLC

\* ------------------------------------------------------------------ bounds
NumFactors == 2
NumActionFactors == 2
MaxDom == 3
MaxVal == 1
MaxBases == 2

\* ------------------------------------------------------------ fixed point
RECURSIVE Pow2(_)
Pow2(n) == IF n = 0 THEN 1 ELSE 2 * Pow2(n - 1)

One == Pow2(NumFactors)

FMul(x, y) == (x * y) \div One

\* ------------------------------------------------- factored-space helpers
Range(s) == {s[j] : j \in 1..Len(s)}

Min(S) == CHOOSE m \in S : \A o \in S : m <= o

RECURSIVE SortedSeq(_)
SortedSeq(S) == IF S = {} THEN <<>>
                ELSE <<Min(S)>> \o SortedSeq(S \ {Min(S)})

\* merge: the sorted union of two tags, duplicates removed.
merge(lhs, rhs) == SortedSeq(Range(lhs) \cup Range(rhs))

\* factorSpacePartial: the number of joint assignments of the tag.
RECURSIVE factorSpacePartial(_, _)
factorSpacePartial(ids, sp) ==
    IF ids = <<>> THEN 1
    ELSE sp[Head(ids)] * factorSpacePartial(Tail(ids), sp)

\* The position of variable v in a tag (0 when absent).
PosIn(tag, v) == IF \E j \in 1..Len(tag) : tag[j] = v
                 THEN CHOOSE j \in 1..Len(tag) : tag[j] = v
                 ELSE 0

\* The parent-coverage precondition of the partial lookups.
Covers(pf, ids) == Range(ids) \subseteq Range(pf.first)

\* toIndexPartial: the little-endian index of pf projected onto ids; the
\* first id of ids varies fastest.  Requires Covers(pf, ids).
RECURSIVE toIndexPartial(_, _, _)
toIndexPartial(ids, sp, pf) ==
    IF ids = <<>> THEN 0
    ELSE pf.second[PosIn(pf.first, Head(ids))]
         + sp[Head(ids)] * toIndexPartial(Tail(ids), sp, pf)

\* PartialFactorsEnumerator: the current assignment and whether it is valid.
NewEnumerator(sp, tag) ==
    [first |-> tag, second |-> [j \in 1..Len(tag) |-> 0], valid |-> TRUE]

isValid(e) == e.valid

Deref(e) == [first |-> e.first, second |-> e.second]

RECURSIVE Increment(_, _, _, _)
Increment(sp, tag, vals, j) ==
    IF j > Len(tag) THEN [second |-> vals, valid |-> FALSE]
    ELSE IF vals[j] + 1 < sp[tag[j]]
         THEN [second |-> [vals EXCEPT ![j] = @ + 1], valid |-> TRUE]
         ELSE Increment(sp, tag, [vals EXCEPT ![j] = 0], j + 1)

advance(sp, e) ==
    LET n == Increment(sp, e.first, e.second, 1)
    IN  [first |-> e.first, second |-> n.second, valid |-> n.valid]

reset(sp, e) == NewEnumerator(sp, e.first)

\* ------------------------------------------------ transition probabilities
\* DBN / DBNRef, partial form: the product over the children named in s1 of
\* node.matrix(row of the parents in s, value of the child in s1).
RECURSIVE DBN_getTransitionProbability(_, _, _, _, _)
DBN_getTransitionProbability(sp, net, s, s1, j) ==
    IF j > Len(s1.first) THEN One
    ELSE LET node == net[s1.first[j]]
             row  == toIndexPartial(node.tag, sp, s)
         IN  FMul(node.matrix[row][s1.second[j]],
                  DBN_getTransitionProbability(sp, net, s, s1, j + 1))

DBN_Precondition(net, s, s1) ==
    \A c \in Range(s1.first) : Covers(s, net[c].tag)

\* FactoredDDN, partial form: the action picks one DBN::Node per child.
RECURSIVE DDN_getTransitionProbability(_, _, _, _, _, _, _)
DDN_getTransitionProbability(sp, acts, net, s, a, s1, j) ==
    IF j > Len(s1.first) THEN One
    ELSE LET node     == net[s1.first[j]]
             actionId == toIndexPartial(node.actionTag, acts, a)
             n        == node.nodes[actionId]
             parentId == toIndexPartial(n.tag, sp, s)
         IN  FMul(n.matrix[parentId][s1.second[j]],
                  DDN_getTransitionProbability(sp, acts, net, s, a, s1, j + 1))

DDN_Precondition(sp, acts, net, s, a, s1) ==
    \A c \in Range(s1.first) :
        /\ Covers(a, net[c].actionTag)
        /\ Covers(s, net[c].nodes[toIndexPartial(net[c].actionTag, acts, a)].tag)

\* ---------------------------------------------------------- CompactDDN
\* A reference to a DBN::Node owned by a CompactDDN: either node i of the
\* default transition or entry j of the diffs of action a.
DefaultRef(i) == [owner |-> "default", a |-> 0, idx |-> i]
DiffRef(a, j) == [owner |-> "diff", a |-> a, idx |-> j]

RECURSIVE ApplyDiffs(_, _, _, _)
ApplyDiffs(refs, diffs, a, j) ==
    IF j > Len(diffs) THEN refs
    ELSE ApplyDiffs([refs EXCEPT ![diffs[j].id] = DiffRef(a, j)], diffs, a, j + 1)

\* Variant: the diffs of action 0 are applied whatever the action.
makeDiffTransition_FirstAction(c, a) ==
    ApplyDiffs([i \in DOMAIN c.defaultTransition |-> DefaultRef(i)],
               c.diffs[0], 0, 1)

makeDiffTransition(c, a) ==
    ApplyDiffs([i \in DOMAIN c.defaultTransition |-> DefaultRef(i)],
               c.diffs[a], a, 1)

\* The node a reference refers to, and the DBN a DBNRef reads as.
NodeOf(c, r) == IF r.owner = "default" THEN c.defaultTransition[r.idx]
                ELSE c.diffs[r.a][r.idx].node

ReadRef(c, refs) == [i \in DOMAIN refs |-> NodeOf(c, refs[i])]

\* ------------------------------------------------------- input families
Ids == 0..(NumFactors - 1)
ActionIds == 0..(NumActionFactors - 1)

\* Factor spaces: every factor binary, domain sizes rising, domain sizes falling.
RampUp(n)   == [v \in 0..(n - 1) |-> 2 + (v % (MaxDom - 1))]
RampDown(n) == [v \in 0..(n - 1) |-> MaxDom - (v % (MaxDom - 1))]
Binary(n)   == [v \in 0..(n - 1) |-> 2]

Spaces == {Binary(NumFactors), RampUp(NumFactors), RampDown(NumFactors)}
ActionSpaces == {Binary(NumActionFactors), RampUp(NumActionFactors)}

\* The tag whose members are the set bits of mask.
TagOfMask(mask, n) ==
    SortedSeq({v \in 0..(n - 1) : (mask \div Pow2(v)) % 2 = 1})

NumTags == Pow2(NumFactors)

\* Parent tags of child c, by shape of network.
Shapes == {"none", "self", "next", "prev", "pair", "all"}

ParentTag(shape, c, n) ==
    CASE shape = "none" -> <<>>
      [] shape = "self" -> <<c>>
      [] shape = "next" -> <<(c + 1) % n>>
      [] shape = "prev" -> IF c = 0 THEN <<>> ELSE <<c - 1>>
      [] shape = "pair" -> SortedSeq({c, (c + 1) % n})
      [] OTHER          -> SortedSeq(0..(n - 1))

\* Conditional probability tables, rows stochastic:
\*   kind 0: the child takes the value row % cols;
\*   kind 1: half on row % cols, half on (row + 1) % cols;
\*   kind 2: the child takes the value (row + 1) % cols.
Kinds == 0..2

Cpt(kind, rows, cols) ==
    [r \in 0..(rows - 1) |-> [c \in 0..(cols - 1) |->
        CASE kind = 0 -> IF c = r % cols THEN One ELSE 0
          [] kind = 1 -> IF c = r % cols \/ c = (r + 1) % cols
                         THEN One \div 2 ELSE 0
          [] OTHER    -> IF c = (r + 1) % cols THEN One ELSE 0]]

MakeNode(tag, kind, sp, c) ==
    [tag |-> tag, matrix |-> Cpt(kind, factorSpacePartial(tag, sp), sp[c])]

MakeDBN(shape, kind, sp) ==
    [c \in Ids |-> MakeNode(ParentTag(shape, c, NumFactors),
                            (kind + 2 * c) % 3, sp, c)]

DBNs(sp) == {MakeDBN(shape, kind, sp) : shape \in Shapes, kind \in Kinds}

\* Basis functions: dense values over the tag.
Tri(n) == (n * (n + 1)) \div 2

MakeBasis(tag, seed, sp) ==
    [tag |-> tag,
     values |-> [x \in 0..(factorSpacePartial(tag, sp) - 1) |->
                    One * (Tri(x + seed) % (MaxVal + 1))]]

\* Factored vectors: up to MaxBases bases over consecutive tags, the values
\* of each basis shifted by one from the previous.
MakeFV(len, t, sp) ==
    [b \in 1..len |->
        MakeBasis(TagOfMask((t + b - 1) % NumTags, NumFactors), t + b + 1, sp)]

FVs(sp) == {MakeFV(len, t, sp) : len \in 1..MaxBases, t \in 0..(NumTags - 1)}

\* Factored DDNs: child c depends on the action factors ActionTagOf(ashape, c);
\* the DBN::Node of the j-th action assignment takes the (base + j)-th shape,
\* so the parents of one child differ from action to action.
ActionShapes == {"none", "own", "next", "all"}

ActionTagOf(ashape, c, n) ==
    CASE ashape = "none" -> <<>>
      [] ashape = "own"  -> <<c % n>>
      [] ashape = "next" -> <<(c + 1) % n>>
      [] OTHER           -> SortedSeq(0..(n - 1))

ShapeSeq == <<"none", "self", "next", "prev", "pair", "all">>

MakeDDNNode(ashape, base, sp, acts, c) ==
    LET atag == ActionTagOf(ashape, c, NumActionFactors)
    IN  [actionTag |-> atag,
         nodes |-> [j \in 0..(factorSpacePartial(atag, acts) - 1) |->
                      MakeNode(ParentTag(ShapeSeq[((base + j) % Len(ShapeSeq)) + 1],
                                         c, NumFactors),
                               (base + j + 2 * c) % 3, sp, c)]]

MakeDDN(ashape, base, sp, acts) ==
    [c \in Ids |-> MakeDDNNode(ashape, base, sp, acts, c)]

DDNs(sp, acts) == {MakeDDN(ashape, base, sp, acts) :
                      ashape \in ActionShapes, base \in 0..(Len(ShapeSeq) - 1)}

Bases(sp) == {MakeBasis(TagOfMask(t, NumFactors), t + 2, sp) : t \in 0..(NumTags - 1)}

\* Compact DDNs: a default DBN and, per action, a list of diffs with unique
\* ids, in no particular order.
NumActions == 2

DiffPatterns == {"empty", "one", "descending", "tail"}

DiffIds(pattern, a) ==
    CASE pattern = "empty"      -> <<>>
      [] pattern = "one"        -> <<a % NumFactors>>
      [] pattern = "descending" -> [j \in 1..NumFactors |-> NumFactors - j]
      [] OTHER                  -> SortedSeq({v \in Ids : v >= a})

MakeDiffs(pattern, dshape, sp, a) ==
    LET ids == DiffIds(pattern, a)
    IN  [j \in 1..Len(ids) |->
            [id |-> ids[j],
             node |-> MakeNode(ParentTag(dshape, ids[j], NumFactors),
                               (a + j) % 3, sp, ids[j])]]

MakeCompactDDN(shape, kind, pattern, dshape, sp) ==
    [defaultTransition |-> MakeDBN(shape, kind, sp),
     diffs |-> [a \in 0..(NumActions - 1) |-> MakeDiffs(pattern, dshape, sp, a)]]

CompactDDNs(sp) == {MakeCompactDDN(shape, kind, pattern, dshape, sp) :
                       shape \in Shapes, kind \in Kinds,
                       pattern \in DiffPatterns, dshape \in Shapes}

\* The per-action transition models of a few compact DDNs, read through
\* the DBNRef that makeDiffTransition returns.
RefNets(sp) ==
    {ReadRef(c, makeDiffTransition(c, a)) :
        c \in {MakeCompactDDN("prev", 0, pattern, "all", sp) :
                  pattern \in {"one", "descending"}},
        a \in 0..(NumActions - 1)}

\* A cell of a result vector or matrix.  resize does not fill the cells it
\* allocates ("Don't need to zero fill"): until it is assigned, a cell is
\* Indeterminate, whatever bytes the heap held there, each cell on its own.
\* An assigned cell holds the double assigned.
Indeterminate == [assigned |-> FALSE]
Cell(v) == [assigned |-> TRUE, v |-> v]

\* operator+ on two cells: the sum of two doubles, indeterminate when either is.
CellAdd(x, y) == IF x.assigned /\ y.assigned THEN Cell(x.v + y.v) ELSE Indeterminate

\* ------------------------------------------------------------------ state
VARIABLES pc, space, actions,
          dbn, fv, fvRetval, basisId, projections, bf, retval, id, domain,
          ddn, bmRetval, sId, aId, sDomain, aDomain, written,
          rhsDomain, i, currentVal,
          cddn, action, refRetval

vars == <<pc, space, actions,
          dbn, fv, fvRetval, basisId, projections, bf, retval, id, domain,
          ddn, bmRetval, sId, aId, sDomain, aDomain, written,
          rhsDomain, i, currentVal,
          cddn, action, refRetval>>

inputVars == <<space, actions, dbn, fv, ddn, cddn, action>>
fvVars    == <<fvRetval, basisId, projections>>
dbnVars   == <<retval, id, domain>>
ddnVars   == <<bmRetval, sId, aId, sDomain, aDomain, written>>
rhsVars   == <<rhsDomain, i, currentVal>>

NoEnumerator == NewEnumerator(<<>>, <<>>)
NoBasis == [tag |-> <<>>, values |-> <<>>]
NoMatrix == [tag |-> <<>>, actionTag |-> <<>>, rows |-> 0, cols |-> 0, values |-> <<>>]

Idle ==
    /\ fvRetval = <<>> /\ basisId = 0 /\ projections = <<>>
    /\ retval = NoBasis /\ id = 0 /\ domain = NoEnumerator
    /\ bmRetval = NoMatrix /\ sId = 0 /\ aId = 0
    /\ sDomain = NoEnumerator /\ aDomain = NoEnumerator /\ written = <<>>
    /\ rhsDomain = NoEnumerator /\ i = 0 /\ currentVal = 0
    /\ refRetval = <<>>

\* A call of backProject(space, dbn, fv) on a DBN or a DBNRef.
InitFV ==
    /\ pc = "fv_loop"
    /\ space \in Spaces
    /\ actions = <<>>
    /\ dbn \in DBNs(space) \cup RefNets(space)
    /\ fv \in FVs(space)
    /\ bf = NoBasis /\ ddn = <<>> /\ cddn = <<>> /\ action = 0
    /\ Idle

\* A call of backProject(space, actions, ddn, bf) on a FactoredDDN.
InitDDN ==
    /\ pc = "ddn_start"
    /\ space \in Spaces
    /\ actions \in ActionSpaces
    /\ ddn \in DDNs(space, actions)
    /\ bf \in Bases(space)
    /\ dbn = <<>> /\ fv = <<>> /\ cddn = <<>> /\ action = 0
    /\ Idle

\* A call of makeDiffTransition(action) on a CompactDDN.
InitCompact ==
    /\ pc = "mdt_start"
    /\ space \in Spaces
    /\ actions = <<>>
    /\ cddn \in CompactDDNs(space)
    /\ action \in 0..(NumActions - 1)
    /\ bf = NoBasis /\ dbn = <<>> /\ fv = <<>> /\ ddn = <<>>
    /\ Idle

Init == InitFV \/ InitDDN \/ InitCompact

\* ------------------------------------------- backProject, DBN / DBNRef
\* for (auto d : bf.tag) retval.tag = merge(retval.tag, dbn[d].tag);
\* Variant: only the parents of the first child of the basis are taken.
BP_Tag_FirstChild(net, tag, acc) ==
    IF tag = <<>> THEN acc ELSE merge(acc, net[Head(tag)].tag)

RECURSIVE BP_Tag(_, _, _)
BP_Tag(net, tag, acc) ==
    IF tag = <<>> THEN acc
    ELSE BP_Tag(net, Tail(tag), merge(acc, net[Head(tag)].tag))

\* currentVal += bf.values[i] * dbn.getTransitionProbability(...)
\* Variant: the product is assigned, not added.
BP_Accumulate_Assign(cur, h, p) == FMul(h, p)

BP_Accumulate(cur, h, p) == cur + FMul(h, p)

\* plusEqual on factored vectors: the basis is added to the basis of retval
\* that has its tag, or appended when there is none.
plusEqual(sp, acc, basis) ==
    IF \E b \in 1..Len(acc) : acc[b].tag = basis.tag
    THEN LET b == CHOOSE b \in 1..Len(acc) : acc[b].tag = basis.tag
         IN  [acc EXCEPT ![b].values =
                 [x \in DOMAIN @ |-> CellAdd(@[x], basis.values[x])]]
    ELSE Append(acc, basis)

\* plusEqual(space, retval, backProject(space, dbn, basis));
\* Variant: the result is replaced by the last back-projection.
FV_Accumulate_Replace(sp, acc, basis) == <<basis>>

FV_Accumulate(sp, acc, basis) == plusEqual(sp, acc, basis)

\* The loop of the factored-vector overload takes its next basis and calls
\* the basis overload, which sets up its result and its enumerators.
FV_Call ==
    /\ pc = "fv_loop"
    /\ basisId < Len(fv)
    /\ bf' = fv[basisId + 1]
    /\ LET tag == BP_Tag(dbn, bf'.tag, <<>>)
       IN  /\ retval' = [tag |-> tag,
                      values |-> [x \in 0..(factorSpacePartial(tag, space) - 1) |->
                                     Indeterminate]]
           /\ domain' = NewEnumerator(space, tag)
    /\ id' = 0
    /\ rhsDomain' = NewEnumerator(space, bf'.tag)
    /\ pc' = "bp_outer"
    /\ UNCHANGED <<inputVars, fvVars, ddnVars, i, currentVal, refRetval>>

\* while (domain.isValid()) { double currentVal = 0.0; size_t i = 0; ...
BP_Outer ==
    /\ pc = "bp_outer"
    /\ IF isValid(domain)
       THEN /\ currentVal' = 0
            /\ i' = 0
            /\ pc' = "bp_rhs"
       ELSE /\ pc' = "bp_return"
            /\ UNCHANGED <<i, currentVal>>
    /\ UNCHANGED <<inputVars, fvVars, dbnVars, ddnVars, bf, rhsDomain, refRetval>>

\* The body of while (rhsDomain.isValid()).
BP_Rhs ==
    /\ pc = "bp_rhs"
    /\ isValid(rhsDomain)
    /\ IF i \notin DOMAIN bf.values
       THEN /\ pc' = "out_of_bounds"
            /\ UNCHANGED rhsVars
       ELSE IF ~DBN_Precondition(dbn, Deref(domain), Deref(rhsDomain))
       THEN /\ pc' = "precondition_failed"
            /\ UNCHANGED rhsVars
       ELSE /\ currentVal' = BP_Accumulate(currentVal, bf.values[i],
                                DBN_getTransitionProbability(space, dbn,
                                    Deref(domain), Deref(rhsDomain), 1))
            /\ i' = i + 1
            /\ rhsDomain' = advance(space, rhsDomain)
            /\ pc' = "bp_rhs"
    /\ UNCHANGED <<inputVars, fvVars, dbnVars, ddnVars, bf, refRetval>>

\* retval.values[id] = currentVal; ++id; domain.advance(); rhsDomain.reset();
BP_Write ==
    /\ pc = "bp_rhs"
    /\ ~isValid(rhsDomain)
    /\ IF id \notin DOMAIN retval.values
       THEN /\ pc' = "out_of_bounds"
            /\ UNCHANGED <<dbnVars, rhsDomain>>
       ELSE /\ retval' = [retval EXCEPT !.values[id] = Cell(currentVal)]
            /\ id' = id + 1
            /\ domain' = advance(space, domain)
            /\ rhsDomain' = reset(space, rhsDomain)
            /\ pc' = "bp_outer"
    /\ UNCHANGED <<inputVars, fvVars, ddnVars, bf, i, currentVal, refRetval>>

\* The basis overload returns and the factored-vector loop adds the result.
FV_PlusEqual ==
    /\ pc = "bp_return"
    /\ fvRetval' = FV_Accumulate(space, fvRetval, retval)
    /\ basisId' = basisId + 1
    /\ projections' = Append(projections, retval)
    /\ pc' = "fv_loop"
    /\ UNCHANGED <<inputVars, dbnVars, ddnVars, rhsVars, bf, refRetval>>

FV_Return ==
    /\ pc = "fv_loop"
    /\ basisId = Len(fv)
    /\ pc' = "fv_return"
    /\ UNCHANGED <<inputVars, fvVars, dbnVars, ddnVars, rhsVars, bf, refRetval>>

\* ------------------------------------------------ backProject, FactoredDDN
\* for (auto d : bf.tag) retval.actionTag = merge(retval.actionTag, ddn[d].actionTag);
\* Variant: only the action factors of the first child of the basis are taken.
DDN_ActionTag_FirstChild(net, tag, acc) ==
    IF tag = <<>> THEN acc ELSE merge(acc, net[Head(tag)].actionTag)

RECURSIVE DDN_ActionTag(_, _, _)
DDN_ActionTag(net, tag, acc) ==
    IF tag = <<>> THEN acc
    ELSE DDN_ActionTag(net, Tail(tag), merge(acc, net[Head(tag)].actionTag))

\* for (const auto & n : ddn[d].nodes) retval.tag = merge(retval.tag, n.tag);
\* Variant: only the parents under the first action assignment are taken.
DDN_NodesTag_FirstNode(nodes, j, acc) ==
    IF j \notin DOMAIN nodes THEN acc ELSE merge(acc, nodes[j].tag)

RECURSIVE DDN_NodesTag(_, _, _)
DDN_NodesTag(nodes, j, acc) ==
    IF j \notin DOMAIN nodes THEN acc
    ELSE DDN_NodesTag(nodes, j + 1, merge(acc, nodes[j].tag))

RECURSIVE DDN_Tag(_, _, _)
DDN_Tag(net, tag, acc) ==
    IF tag = <<>> THEN acc
    ELSE DDN_Tag(net, Tail(tag), DDN_NodesTag(net[Head(tag)].nodes, 0, acc))

\* sizeS and sizeA, the arguments of retval.values.resize(sizeS, sizeA).
DDN_Rows(sp, tag) == factorSpacePartial(tag, sp)
\* Variant: the columns are sized in the state space.
DDN_Cols_StateSpace(acts, atag) == factorSpacePartial(atag, space)

DDN_Cols(acts, atag) == factorSpacePartial(atag, acts)

\* Tags, sizes, the resize, the counters and the three enumerators.
DDN_Setup ==
    /\ pc = "ddn_start"
    /\ LET tag   == DDN_Tag(ddn, bf.tag, <<>>)
           atag  == DDN_ActionTag(ddn, bf.tag, <<>>)
           sizeS == DDN_Rows(space, tag)
           sizeA == DDN_Cols(actions, atag)
       IN  /\ bmRetval' = [tag |-> tag, actionTag |-> atag,
                        rows |-> sizeS, cols |-> sizeA,
                        values |-> [r \in 0..(sizeS - 1) |->
                                       [c \in 0..(sizeA - 1) |-> Indeterminate]]]
           /\ written' = [r \in 0..(sizeS - 1) |-> [c \in 0..(sizeA - 1) |-> 0]]
           /\ sDomain' = NewEnumerator(space, tag)
           /\ aDomain' = NewEnumerator(actions, atag)
    /\ sId' = 0
    /\ aId' = 0
    /\ rhsDomain' = NewEnumerator(space, bf.tag)
    /\ pc' = "ddn_outer"
    /\ UNCHANGED <<inputVars, fvVars, dbnVars, bf, i, currentVal, refRetval>>

\* while (sDomain.isValid())
DDN_Outer ==
    /\ pc = "ddn_outer"
    /\ pc' = IF isValid(sDomain) THEN "ddn_inner" ELSE "ddn_return"
    /\ UNCHANGED <<inputVars, fvVars, dbnVars, ddnVars, rhsVars, bf, refRetval>>

\* while (aDomain.isValid()) { double currentVal = 0.0; size_t i = 0; ...
DDN_Inner ==
    /\ pc = "ddn_inner"
    /\ isValid(aDomain)
    /\ currentVal' = 0
    /\ i' = 0
    /\ pc' = "ddn_rhs"
    /\ UNCHANGED <<inputVars, fvVars, dbnVars, ddnVars, bf, rhsDomain, refRetval>>

\* Variant: the action enumerator is reset for the next row, the counter
\* aId is not.
DDN_NextRow_ResetEnumerator ==
    /\ pc = "ddn_inner"
    /\ ~isValid(aDomain)
    /\ sId' = sId + 1
    /\ sDomain' = advance(space, sDomain)
    /\ aDomain' = reset(actions, aDomain)
    /\ pc' = "ddn_outer"
    /\ UNCHANGED <<inputVars, fvVars, dbnVars, rhsVars, bf, refRetval,
                   bmRetval, aId, written>>

\* The inner loop is left: ++sId; sDomain.advance();  aId and aDomain stay
\* as the inner loop left them.
DDN_NextRow ==
    /\ pc = "ddn_inner"
    /\ ~isValid(aDomain)
    /\ sId' = sId + 1
    /\ sDomain' = advance(space, sDomain)
    /\ pc' = "ddn_outer"
    /\ UNCHANGED <<inputVars, fvVars, dbnVars, rhsVars, bf, refRetval,
                   bmRetval, aId, aDomain, written>>

\* The body of while (rhsDomain.isValid()).
DDN_Rhs ==
    /\ pc = "ddn_rhs"
    /\ isValid(rhsDomain)
    /\ IF i \notin DOMAIN bf.values
       THEN /\ pc' = "out_of_bounds"
            /\ UNCHANGED rhsVars
       ELSE IF ~DDN_Precondition(space, actions, ddn,
                                 Deref(sDomain), Deref(aDomain), Deref(rhsDomain))
       THEN /\ pc' = "precondition_failed"
            /\ UNCHANGED rhsVars
       ELSE /\ currentVal' = BP_Accumulate(currentVal, bf.values[i],
                                DDN_getTransitionProbability(space, actions, ddn,
                                    Deref(sDomain), Deref(aDomain), Deref(rhsDomain), 1))
            /\ i' = i + 1
            /\ rhsDomain' = advance(space, rhsDomain)
            /\ pc' = "ddn_rhs"
    /\ UNCHANGED <<inputVars, fvVars, dbnVars, ddnVars, bf, refRetval>>

\* retval.values(sId, aId) = currentVal; ++aId; aDomain.advance(); rhsDomain.reset();
DDN_Write ==
    /\ pc = "ddn_rhs"
    /\ ~isValid(rhsDomain)
    /\ IF sId >= bmRetval.rows \/ aId >= bmRetval.cols
       THEN /\ pc' = "out_of_bounds"
            /\ UNCHANGED <<ddnVars, rhsDomain>>
       ELSE /\ bmRetval' = [bmRetval EXCEPT !.values[sId][aId] = Cell(currentVal)]
            /\ written' = [written EXCEPT ![sId][aId] = @ + 1]
            /\ aId' = aId + 1
            /\ aDomain' = advance(actions, aDomain)
            /\ rhsDomain' = reset(space, rhsDomain)
            /\ pc' = "ddn_inner"
            /\ UNCHANGED <<sId, sDomain>>
    /\ UNCHANGED <<inputVars, fvVars, dbnVars, bf, i, currentVal, refRetval>>

\* --------------------------------------------------- makeDiffTransition
MakeDiffTransition ==
    /\ pc = "mdt_start"
    /\ refRetval' = makeDiffTransition(cddn, action)
    /\ pc' = "mdt_return"
    /\ UNCHANGED <<inputVars, fvVars, dbnVars, ddnVars, rhsVars, bf>>

Next ==
    \/ FV_Call \/ BP_Outer \/ BP_Rhs \/ BP_Write \/ FV_PlusEqual \/ FV_Return
    \/ DDN_Setup \/ DDN_Outer \/ DDN_Inner \/ DDN_NextRow \/ DDN_Rhs \/ DDN_Write
    \/ MakeDiffTransition

Spec == Init /\ [][Next]_vars

\* ------------------------------------------------------------ reference
\* The x-th assignment of a tag in little-endian order: the mixed-radix
\* digits of x, the first variable of the tag the least significant.
AssignmentAt(tag, sp, x) ==
    [first |-> tag,
     second |-> [j \in 1..Len(tag) |->
                    (x \div factorSpacePartial(SubSeq(tag, 1, j - 1), sp))
                        % sp[tag[j]]]]

\* The expectation of the basis h under a DBN, from the pre-state x:
\* the sum over the first n assignments x1 of h.tag of h(x1) * P(x1 | x).
RECURSIVE DBN_Expectation(_, _, _, _, _)
DBN_Expectation(sp, net, h, x, n) ==
    IF n = 0 THEN 0
    ELSE DBN_Expectation(sp, net, h, x, n - 1)
         + FMul(h.values[n - 1],
                DBN_getTransitionProbability(sp, net, x,
                    AssignmentAt(h.tag, sp, n - 1), 1))

RECURSIVE DDN_Expectation(_, _, _, _, _, _, _)
DDN_Expectation(sp, acts, net, h, x, a, n) ==
    IF n = 0 THEN 0
    ELSE DDN_Expectation(sp, acts, net, h, x, a, n - 1)
         + FMul(h.values[n - 1],
                DDN_getTransitionProbability(sp, acts, net, x, a,
                    AssignmentAt(h.tag, sp, n - 1), 1))

UnionTag(tags) == SortedSeq(UNION {Range(t) : t \in tags})

FullTag == SortedSeq(Ids)

\* The value of a basis function, and of a sum of bases, at a full state.
EvalBasis(b, x) == b.values[toIndexPartial(b.tag, space, x)]

RECURSIVE EvalSum(_, _)
EvalSum(bases, x) ==
    IF bases = <<>> THEN Cell(0)
    ELSE CellAdd(EvalBasis(Head(bases), x), EvalSum(Tail(bases), x))

\* --------------------------------------------------------------- claims
\* C1: the FactoredDDN back-projection holds, in EVERY cell (sId, aId) of
\* its matrix, the expectation of the basis from the sId-th state
\* assignment under the aId-th action assignment.
C1_EveryCellIsExpectation ==
    pc = "ddn_return" =>
        \A r \in 0..(factorSpacePartial(bmRetval.tag, space) - 1) :
        \A c \in 0..(factorSpacePartial(bmRetval.actionTag, actions) - 1) :
            bmRetval.values[r][c] =
                Cell(DDN_Expectation(space, actions, ddn, bf,
                         AssignmentAt(bmRetval.tag, space, r),
                         AssignmentAt(bmRetval.actionTag, actions, c),
                         factorSpacePartial(bf.tag, space)))

\* C2: the DBN back-projection of a basis holds, at the index of every
\* assignment x of its tag, the expectation of the basis from x.
C2_ValuesAreExpectation ==
    pc = "bp_return" =>
        \A x \in 0..(factorSpacePartial(retval.tag, space) - 1) :
            /\ x \in DOMAIN retval.values
            /\ retval.values[x] =
                  Cell(DBN_Expectation(space, dbn, bf,
                           AssignmentAt(retval.tag, space, x),
                           factorSpacePartial(bf.tag, space)))

\* Scenario (d): the indicator of x1 = 1 goes back to [1, 0] over x0.
C2_Witness ==
    /\ pc = "bp_return"
    /\ space = Binary(NumFactors)
    /\ dbn = MakeDBN("prev", 0, space)
    /\ bf.tag = <<1>> /\ bf.values[0] = 0 /\ bf.values[1] = One
    /\ retval.tag = <<0>> /\ retval.values[0] = Cell(One) /\ retval.values[1] = Cell(0)

\* C3: the tag of the DBN back-projection is the sorted union of the parent
\* tags of the children of the basis, and its values are dense over it.
C3_TagIsUnionOfParents ==
    pc \in {"bp_outer", "bp_rhs", "bp_return"} =>
        /\ retval.tag = UnionTag({dbn[d].tag : d \in Range(bf.tag)})
        /\ DOMAIN retval.values = 0..(factorSpacePartial(retval.tag, space) - 1)

C3_Witness ==
    /\ pc = "bp_return"
    /\ \E d, e \in Range(bf.tag) :
          /\ Len(retval.tag) > Len(dbn[d].tag) /\ dbn[d].tag # <<>>
          /\ Len(retval.tag) > Len(dbn[e].tag) /\ dbn[e].tag # <<>>
          /\ dbn[d].tag # dbn[e].tag

\* C4: the tag of the FactoredDDN back-projection is the sorted union of the
\* parent tags of every DBN::Node of every child of the basis, and its
\* actionTag the sorted union of the action tags of those children.
C4_TagsAreUnions ==
    pc \in {"ddn_outer", "ddn_inner", "ddn_rhs", "ddn_return"} =>
        /\ bmRetval.tag =
              UnionTag(UNION {{ddn[d].nodes[j].tag : j \in DOMAIN ddn[d].nodes} :
                                 d \in Range(bf.tag)})
        /\ bmRetval.actionTag = UnionTag({ddn[d].actionTag : d \in Range(bf.tag)})

\* Some child of the basis has a parent that the node of the first action
\* assignment does not have, and the children depend on two action factors.
C4_Witness ==
    /\ pc = "ddn_return"
    /\ Len(bmRetval.actionTag) = 2
    /\ \E d \in Range(bf.tag) : \E j \in DOMAIN ddn[d].nodes :
          ~(Range(ddn[d].nodes[j].tag) \subseteq
                UNION {Range(ddn[e].nodes[0].tag) : e \in Range(bf.tag)})

\* C5: the back-projection of a factored vector is, at every full
\* pre-state, the sum of the back-projections of its bases.
C5_Linear ==
    pc = "fv_return" =>
        /\ Len(projections) = Len(fv)
        /\ \A x \in 0..(factorSpacePartial(FullTag, space) - 1) :
              /\ EvalSum(fvRetval, AssignmentAt(FullTag, space, x)).assigned
              /\ EvalSum(fvRetval, AssignmentAt(FullTag, space, x))
                    = EvalSum(projections, AssignmentAt(FullTag, space, x))

\* Two bases went back to the same tag and were added into one.
C5_Witness ==
    /\ pc = "fv_return"
    /\ Len(fv) = 2
    /\ Len(fvRetval) = 1
    /\ fv[1].tag # fv[2].tag
    /\ \E x \in DOMAIN fvRetval[1].values :
          /\ projections[1].values[x].v > 0
          /\ projections[2].values[x].v > 0
          /\ fvRetval[1].values[x] =
                Cell(projections[1].values[x].v + projections[2].values[x].v)

\* C6: element i of makeDiffTransition(a) refers to the diff of action a
\* with id i when there is one, and to node i of the default DBN otherwise.
C6_DiffOrDefault ==
    pc = "mdt_return" =>
        /\ DOMAIN refRetval = DOMAIN cddn.defaultTransition
        /\ \A c \in DOMAIN cddn.defaultTransition :
              IF \E j \in 1..Len(cddn.diffs[action]) : cddn.diffs[action][j].id = c
              THEN /\ refRetval[c].owner = "diff"
                   /\ refRetval[c].a = action
                   /\ cddn.diffs[action][refRetval[c].idx].id = c
              ELSE refRetval[c] = DefaultRef(c)

\* Action 1 replaces a node that action 0 leaves alone, and leaves alone a
\* node that action 0 replaces.
C6_Witness ==
    /\ pc = "mdt_return"
    /\ action = 1
    /\ \E c, d \in DOMAIN refRetval :
          /\ refRetval[c].owner = "diff"
          /\ \A j \in 1..Len(cddn.diffs[0]) : cddn.diffs[0][j].id # c
          /\ refRetval[d].owner = "default"
          /\ \E j \in 1..Len(cddn.diffs[0]) : cddn.diffs[0][j].id = d

\* C7: the matrix of the FactoredDDN back-projection has one row per
\* assignment of its tag and one column per assignment of its actionTag.
C7_Shape ==
    pc \in {"ddn_outer", "ddn_inner", "ddn_rhs", "ddn_return"} =>
        /\ bmRetval.rows = factorSpacePartial(bmRetval.tag, space)
        /\ bmRetval.cols = factorSpacePartial(bmRetval.actionTag, actions)
        /\ DOMAIN bmRetval.values = 0..(bmRetval.rows - 1)
        /\ \A r \in DOMAIN bmRetval.values :
              DOMAIN bmRetval.values[r] = 0..(bmRetval.cols - 1)

\* Scenario (e): child 0 depends on action factor 0, child 1 on action
\* factor 1, both binary; the matrix has 4 columns.
C7_Witness ==
    /\ pc = "ddn_return"
    /\ actions = Binary(NumActionFactors)
    /\ bf.tag = <<0, 1>>
    /\ ddn[0].actionTag = <<0>> /\ ddn[1].actionTag = <<1>>
    /\ bmRetval.actionTag = <<0, 1>>
    /\ bmRetval.cols = 4
    /\ bmRetval.rows > 1

\* C8: when the FactoredDDN back-projection returns, every cell of its
\* matrix has been assigned exactly once.
C8_EveryCellWrittenOnce ==
    pc = "ddn_return" =>
        \A r \in 0..(bmRetval.rows - 1) : \A c \in 0..(bmRetval.cols - 1) :
            written[r][c] = 1 /\ bmRetval.values[r][c].assigned

\* C9: every call of the partial getTransitionProbability made by a
\* back-projection covers the parents, and the action factors, it reads.
C9_PreconditionHolds ==
    /\ pc # "precondition_failed"
    /\ (pc = "bp_rhs" /\ isValid(rhsDomain)) =>
           DBN_Precondition(dbn, Deref(domain), Deref(rhsDomain))
    /\ (pc = "ddn_rhs" /\ isValid(rhsDomain)) =>
           DDN_Precondition(space, actions, ddn,
                            Deref(sDomain), Deref(aDomain), Deref(rhsDomain))

\* A call under an action whose node has a parent that the node of the
\* first action assignment of the same child does not have.
C9_Witness ==
    /\ pc = "ddn_rhs"
    /\ isValid(rhsDomain)
    /\ \E d \in Range(bf.tag) :
          LET n == ddn[d].nodes[toIndexPartial(ddn[d].actionTag, actions, Deref(aDomain))]
          IN  /\ n.tag # <<>>
              /\ ~(Range(n.tag) \subseteq Range(ddn[d].nodes[0].tag))
              /\ Covers(Deref(sDomain), n.tag)

\* C10: every read of bf.values and every write of a result stays inside
\* the vector or matrix it indexes.
C10_InBounds ==
    /\ pc # "out_of_bounds"
    /\ (pc = "bp_rhs" /\ isValid(rhsDomain)) => i < factorSpacePartial(bf.tag, space)
    /\ (pc = "bp_rhs" /\ ~isValid(rhsDomain)) => id \in DOMAIN retval.values
    /\ (pc = "ddn_rhs" /\ isValid(rhsDomain)) => i < factorSpacePartial(bf.tag, space)
    /\ (pc = "ddn_rhs" /\ ~isValid(rhsDomain)) =>
           sId < bmRetval.rows /\ aId < bmRetval.cols

\* The second row is reached with aId left at sizeA by the first.
C10_Witness ==
    /\ pc = "ddn_inner"
    /\ sId = 1
    /\ isValid(sDomain)
    /\ bmRetval.cols > 1
    /\ aId = bmRetval.cols
    /\ written[0][bmRetval.cols - 1] = 1

====
